---- MODULE Spec2Model ----
(***************************************************************************)
(* Model of the two backends of the repository:                            *)
(*   - flight_search_api_fastapi.py: the fare engine compute_dynamic_fare, *)
(*     the /search handler and the background demand simulator;            *)
(*   - app.py / models.py: the booking service (book_flight,               *)
(*     cancel_booking).                                                    *)
(*                                                                         *)
(* Number representation.  Python floats are modelled by exact integers:   *)
(*   base_fare      in units of 0.5 currency  (2000 = 1000.00)             *)
(*   fares          in cents                                               *)
(*   hours          in tenths of an hour      (1 = 0.1 h)                  *)
(*   multipliers    in thousandths            (1000 = 1.0)                 *)
(*   volatility     in whole percent          (-2 .. 3)                    *)
(* round(raw, 2) is modelled as round-half-to-even on the exact value.     *)
(***************************************************************************)
EXTENDS Integers, Sequences, FiniteSets, TLC

\* ------------------------------------------------------------------------
\* Bounds of the model
\* ------------------------------------------------------------------------
\* fare-engine harness: largest seats_total tried (0 and a small plane are tried too)
MaxSeatsTotal == 100
\* flight search service: rows of table Flight, simulator iterations, search requests
NumFlights == 2
MaxIter == 2
MaxSearch == 1
\* booking service: request threads, requests, values of generate_pnr()
NumThreads == 2
MaxRequests == 3
NumPnrs == 2

\* ------------------------------------------------------------------------
\* Fare engine (pure function)
\* ------------------------------------------------------------------------
Max(a, b) == IF a >= b THEN a ELSE b
Min(a, b) == IF a <= b THEN a ELSE b

\* round(x, 2) for x = n / d cents, n >= 0, d > 0: round half to even
RoundHalfEven(n, d) ==
    LET q == n \div d
        r == n % d
    IN  IF 2 * r < d THEN q
        ELSE IF 2 * r > d THEN q + 1
        ELSE IF q % 2 = 0 THEN q ELSE q + 1

\* ScarcitySurcharge with the first breakpoint inclusive (<= 5%)
ScarcitySurchargeInclusive(seats_total, seats_available) ==
    LET st == IF seats_total <= 0 THEN 1 ELSE seats_total
    IN  IF 100 * seats_available <= 5 * st THEN 1000
        ELSE IF 100 * seats_available < 15 * st THEN 500
        ELSE IF 100 * seats_available < 33 * st THEN 250
        ELSE IF 100 * seats_available < 50 * st THEN 100
        ELSE 0

\* "Remaining seats effect": surcharge in thousandths.
\* remaining_pct = seats_available / seats_total, compared with 0.05, 0.15,
\* 0.33, 0.5; seats_total <= 0 is replaced by 1 first.
ScarcitySurcharge(seats_total, seats_available) ==
    LET st == IF seats_total <= 0 THEN 1 ELSE seats_total
    IN  IF 100 * seats_available < 5 * st THEN 1000
        ELSE IF 100 * seats_available < 15 * st THEN 500
        ELSE IF 100 * seats_available < 33 * st THEN 250
        ELSE IF 100 * seats_available < 50 * st THEN 100
        ELSE 0

\* UrgencySurcharge with the first two tiers exchanged
UrgencySurchargeSwapped(hours) ==
    IF hours < 20 THEN 350
    ELSE IF hours < 120 THEN 750
    ELSE IF hours < 480 THEN 100
    ELSE 0

\* "Time to departure effect": surcharge in thousandths, hours in tenths.
UrgencySurcharge(hours) ==
    IF hours < 20 THEN 750
    ELSE IF hours < 120 THEN 350
    ELSE IF hours < 480 THEN 100
    ELSE 0

\* demand_factor * 0.8 in thousandths: max(0, min(1, demand_level/100)) * 0.8
DemandSurcharge(demand_level) == 8 * Max(0, Min(100, demand_level))

\* floor = max(1.0, base_fare * 0.5), in cents (base_fare in halves)
FareFloor(base_fare) == Max(100, 25 * base_fare)

\* compute_dynamic_fare without the final max(floor, ...)
compute_dynamic_fare_unfloored(base_fare, seats_total, seats_available, hours, demand_level, volatility) ==
    LET mult == 1000 + ScarcitySurcharge(seats_total, seats_available)
                     + UrgencySurcharge(hours)
                     + DemandSurcharge(demand_level)
    IN  RoundHalfEven(base_fare * mult * (100 + volatility), 2000)

\* compute_dynamic_fare with the random.uniform draw passed in as volatility
\* (percent).  Result in cents.
compute_dynamic_fare(base_fare, seats_total, seats_available, hours, demand_level, volatility) ==
    LET mult == 1000 + ScarcitySurcharge(seats_total, seats_available)
                     + UrgencySurcharge(hours)
                     + DemandSurcharge(demand_level)
        \* raw = base_fare * mult * (1 + volatility), in cents:
        \*   (base/2) * (mult/1000) * ((100+vol)/100) * 100
        rounded == RoundHalfEven(base_fare * mult * (100 + volatility), 2000)
    IN  Max(FareFloor(base_fare), rounded)

\* ------------------------------------------------------------------------
\* State
\* ------------------------------------------------------------------------
VARIABLES
    \* fare-engine harness: one call of compute_dynamic_fare
    fareIn,               \* the arguments (and the volatility draw) of the call
    fareOut,              \* its result in cents, NoFare before the call
    \* flight search service (flight_search_api_fastapi.py)
    db,                   \* table Flight: flight id -> row
    history,              \* table FareHistory: sequence of rows, in insertion order
    now,                  \* wall clock (datetime.utcnow()), tenths of an hour
    enable_fare_history,  \* ENABLE_FARE_HISTORY
    rng,                  \* the values the random source can yield in this run
    stop_background,      \* global stop_background
    wpc,                  \* background_worker: position in the loop
    iter,                 \* number of iterations begun by background_worker
    wflights,             \* the worker session's Flight objects, in SELECT order
    wi,                   \* index of the next flight of the for loop
    wnew,                 \* FareHistory rows added to the worker's session, not committed
    spc,                  \* search_flights: position in the handler
    nsearch,              \* number of search requests received
    sparams,              \* query parameters of the request being handled
    sobjs,                \* the search session's Flight objects (results / adjusted)
    snew,                 \* FareHistory rows added to the search session, not committed
    sresp,                \* last response of /search: flight ids in response order
    shpc,                 \* shutdown_event: position in the handler
    \* booking service (app.py, models.py)
    flight_table,         \* table flight: id -> row
    booking_table,        \* table booking: sequence of rows, in insertion order
    handler,              \* request thread -> the request it is handling
    nreq                  \* number of requests received

fareVars == <<fareIn, fareOut>>
cfgVars == <<enable_fare_history, rng>>
dbVars == <<db, history, now, cfgVars>>
workerVars == <<wpc, iter, wflights, wi, wnew>>
searchVars == <<spc, nsearch, sparams, sobjs, snew, sresp>>
simVars == <<dbVars, stop_background, workerVars, searchVars, shpc>>
bookVars == <<flight_table, booking_table, handler, nreq>>
vars == <<fareVars, simVars, bookVars>>

\* ------------------------------------------------------------------------
\* Fare-engine harness: compute_dynamic_fare called once on sampled inputs
\* ------------------------------------------------------------------------
BaseFares == {1, 2, 3, 2000}                \* 0.50, 1.00, 1.50, 1000.00
SeatsTotals == {0, 3, MaxSeatsTotal}
HoursSamples == {1, 10, 19, 20, 119, 120, 479, 480}   \* 0.1 h .. 48 h
DemandSamples == {0, 50, 100}
Volatility == {-2, 0, 3}                    \* samples of random.uniform(-0.02, 0.03)

FareInputs ==
    { [base_fare |-> b, seats_total |-> t, seats_available |-> a,
       hours |-> h, demand_level |-> d, volatility |-> v] :
        b \in BaseFares, t \in SeatsTotals, a \in 0..MaxSeatsTotal,
        h \in HoursSamples, d \in DemandSamples, v \in Volatility }

FareOf(in) ==
    compute_dynamic_fare(in.base_fare, in.seats_total, in.seats_available,
                         in.hours, in.demand_level, in.volatility)

InitFareIdle ==
    /\ fareIn = [base_fare |-> 2000, seats_total |-> 100, seats_available |-> 2,
                 hours |-> 10, demand_level |-> 50, volatility |-> 0]
    /\ fareOut = <<>>

FareCall ==
    /\ fareOut = <<>>
    /\ fareOut' = <<FareOf(fareIn)>>
    /\ UNCHANGED fareIn

\* ------------------------------------------------------------------------
\* Flight search service: tables and their initial contents
\* ------------------------------------------------------------------------
\* The static columns of the seeded flights (generate_sample_flight): three
\* kinds of flight, repeated.  Departure is in tenths of an hour after clock 0;
\* the third kind has already departed.
FlightKind(id) ==
    CASE id % 3 = 1 -> [origin |-> "DEL", destination |-> "BOM", departure |-> 20,
                        duration_mins |-> 120, seats_total |-> 3, base_fare |-> 2000]
      [] id % 3 = 2 -> [origin |-> "BLR", destination |-> "BOM", departure |-> 300,
                        duration_mins |-> 90, seats_total |-> 2, base_fare |-> 1]
      [] OTHER      -> [origin |-> "DEL", destination |-> "BLR", departure |-> 0 - 10,
                        duration_mins |-> 150, seats_total |-> 3, base_fare |-> 3]

\* hours = (departure - utcnow()).total_seconds() / 3600, then max(0.1, hours)
HoursToDeparture(f, clock) == Max(1, f.departure - clock)

\* A row of table Flight.  sim_iter is an auxiliary column: the number of the
\* last simulator iteration that assigned this row's simulated columns.
\* malformed says that a pricing column holds a value of the wrong type, so
\* that arithmetic on it raises.
FlightRow(id, demand, avail) ==
    LET k == FlightKind(id) IN
    [id |-> id, origin |-> k.origin, destination |-> k.destination,
     departure |-> k.departure, duration_mins |-> k.duration_mins,
     seats_total |-> k.seats_total, seats_available |-> avail,
     base_fare |-> k.base_fare,
     current_fare |-> compute_dynamic_fare(k.base_fare, k.seats_total, avail,
                                           Max(1, k.departure), demand, 0),
     demand_level |-> demand, sim_iter |-> 0, malformed |-> FALSE]

\* The seeded rows of flight id: no demand and sold out, or high demand and empty
SeededRows(id) ==
    { FlightRow(id, 0, 0), FlightRow(id, 98, FlightKind(id).seats_total) }

\* The tables of n seeded flights
SeededTables(n) ==
    { t \in [1..n -> UNION { SeededRows(id) : id \in 1..n }] :
        \A id \in 1..n : t[id].id = id }

\* All rows of the table in SELECT order (by id)
AllRows(table) == [i \in 1..Cardinality(DOMAIN table) |-> table[i]]

\* The draws of the random source.  DemandDeltas and SeatChanges are the
\* ranges of the code; Volatility (above) samples random.uniform(-0.02, 0.03).
DemandDeltas == (0 - 5)..8          \* random.randint(-5, 8)
SeatChanges == {0, 0 - 1, 0 - 2, 1} \* random.choices([0, -1, -2, 1], ...)

\* every draw of the code
FullRng == [deltas |-> DemandDeltas, changes |-> SeatChanges, vols |-> Volatility]

\* runs in which every draw of a kind yields the same value: all up, or all down
SampledRngs ==
    { [deltas |-> {8}, changes |-> {1}, vols |-> {3}],
      [deltas |-> {0 - 5}, changes |-> {0 - 2}, vols |-> {0 - 2}],
      [deltas |-> {3}, changes |-> {0 - 1}, vols |-> {0}] }

\* runs with every demand and seat draw of the code, and no volatility
WalkRng == [deltas |-> DemandDeltas, changes |-> SeatChanges, vols |-> {0}]

InitSimIdle ==
    /\ db = [id \in 1..NumFlights |-> FlightRow(id, 0, 0)]
    /\ history = <<>>
    /\ now = 0
    /\ enable_fare_history = TRUE
    /\ rng = FullRng
    /\ stop_background = FALSE
    /\ wpc = "check" /\ iter = 0 /\ wflights = <<>> /\ wi = 0 /\ wnew = <<>>
    /\ spc = "idle" /\ nsearch = 0
    /\ sparams = <<>> /\ sobjs = <<>> /\ snew = <<>> /\ sresp = <<>>
    /\ shpc = "idle"

InitSim ==
    /\ db \in SeededTables(NumFlights)
    /\ history = <<>>
    /\ now = 0
    /\ enable_fare_history \in BOOLEAN
    /\ rng \in SampledRngs
    /\ stop_background = FALSE
    /\ wpc = "check" /\ iter = 0 /\ wflights = <<>> /\ wi = 0 /\ wnew = <<>>
    /\ spc = "idle" /\ nsearch = 0
    /\ sparams = <<>> /\ sobjs = <<>> /\ snew = <<>> /\ sresp = <<>>
    /\ shpc = "idle"

\* ------------------------------------------------------------------------
\* background_worker
\* ------------------------------------------------------------------------
\* WalkDemand without the upper clamp
WalkDemandNoCap(demand_level, delta) == Max(0, demand_level + delta)

\* f.demand_level = max(0, min(100, f.demand_level + delta))
WalkDemand(demand_level, delta) == Max(0, Min(100, demand_level + delta))

\* f.seats_available = max(0, min(f.seats_total, f.seats_available + change))
WalkSeats(seats_total, seats_available, change) ==
    Max(0, Min(seats_total, seats_available + change))

\* One pass of the body of "for f in flights" on object f
SimulateFlight(f, delta, change, volatility, clock, iteration) ==
    LET d == WalkDemand(f.demand_level, delta)
        a == WalkSeats(f.seats_total, f.seats_available, change)
    IN  [f EXCEPT !.demand_level = d,
                  !.seats_available = a,
                  !.current_fare =
                      compute_dynamic_fare(f.base_fare, f.seats_total, a,
                                           HoursToDeparture(f, clock), d, volatility),
                  !.sim_iter = iteration]

HistoryRow(f, clock) == [flight_id |-> f.id, timestamp |-> clock, fare |-> f.current_fare]

\* A row is overwritten from outside the service with a value of the wrong
\* type in a pricing column (a malformed record is injected)
InjectMalformed ==
    /\ \A id \in DOMAIN db : ~db[id].malformed
    /\ \E id \in DOMAIN db : db' = [db EXCEPT ![id].malformed = TRUE]
    /\ UNCHANGED <<fareVars, bookVars, history, now, cfgVars, stop_background, workerVars, searchVars, shpc>>

\* WorkerEnter that does not test the flag (while True): an iteration starts
\* whatever shutdown_event has done
WorkerEnterIgnoresFlag ==
    /\ wpc = "check"
    /\ iter < MaxIter
    /\ wpc' = "select"
    /\ iter' = iter + 1
    /\ UNCHANGED <<fareVars, bookVars, dbVars, stop_background, wflights, wi, wnew, searchVars, shpc>>

\* while not stop_background: the flag is clear, the loop body is entered
WorkerEnter ==
    /\ wpc = "check"
    /\ ~stop_background
    /\ iter < MaxIter
    /\ wpc' = "select"
    /\ iter' = iter + 1
    /\ UNCHANGED <<fareVars, bookVars, dbVars, stop_background, wflights, wi, wnew, searchVars, shpc>>

\* while not stop_background: the flag is set, the loop is left
WorkerStop ==
    /\ wpc = "check"
    /\ stop_background
    /\ wpc' = "stopped"
    /\ UNCHANGED <<fareVars, bookVars, dbVars, stop_background, iter, wflights, wi, wnew, searchVars, shpc>>

\* flights = session.exec(select(Flight)).all()
WorkerSelect ==
    /\ wpc = "select"
    /\ wflights' = AllRows(db)
    /\ wi' = 1
    /\ wnew' = <<>>
    /\ wpc' = "loop"
    /\ UNCHANGED <<fareVars, bookVars, dbVars, stop_background, iter, searchVars, shpc>>

\* WorkerFlight that adds the FareHistory row whatever ENABLE_FARE_HISTORY says
WorkerFlightAlwaysLogs ==
    /\ wpc = "loop"
    /\ wi <= Len(wflights)
    /\ ~wflights[wi].malformed
    /\ \E delta \in rng.deltas, change \in rng.changes, v \in rng.vols :
         LET f == SimulateFlight(wflights[wi], delta, change, v, now, iter) IN
         /\ wflights' = [wflights EXCEPT ![wi] = f]
         /\ wnew' = Append(wnew, HistoryRow(f, now))
    /\ wi' = wi + 1
    /\ UNCHANGED <<fareVars, bookVars, dbVars, stop_background, wpc, iter, searchVars, shpc>>

\* WorkerFlight that commits each flight as soon as it is recomputed
WorkerFlightAutocommit ==
    /\ wpc = "loop"
    /\ wi <= Len(wflights)
    /\ ~wflights[wi].malformed
    /\ \E delta \in rng.deltas, change \in rng.changes, v \in rng.vols :
         LET f == SimulateFlight(wflights[wi], delta, change, v, now, iter) IN
         /\ wflights' = [wflights EXCEPT ![wi] = f]
         /\ wnew' = IF enable_fare_history THEN Append(wnew, HistoryRow(f, now)) ELSE wnew
         /\ db' = [db EXCEPT ![f.id] = f]
    /\ wi' = wi + 1
    /\ UNCHANGED <<fareVars, bookVars, history, now, cfgVars, stop_background, wpc, iter,
                   searchVars, shpc>>

\* one pass of "for f in flights": the changes stay in the session
WorkerFlight ==
    /\ wpc = "loop"
    /\ wi <= Len(wflights)
    /\ ~wflights[wi].malformed
    /\ \E delta \in rng.deltas, change \in rng.changes, v \in rng.vols :
         LET f == SimulateFlight(wflights[wi], delta, change, v, now, iter) IN
         /\ wflights' = [wflights EXCEPT ![wi] = f]
         /\ wnew' = IF enable_fare_history THEN Append(wnew, HistoryRow(f, now)) ELSE wnew
    /\ wi' = wi + 1
    /\ UNCHANGED <<fareVars, bookVars, dbVars, stop_background, wpc, iter, searchVars, shpc>>

\* WorkerFlightRaise with the exception not caught: the thread ends
WorkerFlightRaiseExits ==
    /\ wpc = "loop"
    /\ wi <= Len(wflights)
    /\ wflights[wi].malformed
    /\ wflights' = <<>> /\ wnew' = <<>> /\ wi' = 0
    /\ wpc' = "stopped"
    /\ UNCHANGED <<fareVars, bookVars, dbVars, stop_background, iter, searchVars, shpc>>

\* The body of "for f in flights" raises on a malformed flight: the exception
\* leaves the "with Session" block before session.commit(), the session and
\* its pending changes are dropped, "except Exception" prints the exception
WorkerFlightRaise ==
    /\ wpc = "loop"
    /\ wi <= Len(wflights)
    /\ wflights[wi].malformed
    /\ wflights' = <<>> /\ wnew' = <<>> /\ wi' = 0
    /\ wpc' = "sleep"
    /\ UNCHANGED <<fareVars, bookVars, dbVars, stop_background, iter, searchVars, shpc>>

\* session.commit(): one transaction writes the simulated columns of every
\* flight of the session and inserts the session's FareHistory rows
CommitFlights(table, objs) ==
    [id \in DOMAIN table |->
        IF \E k \in 1..Len(objs) : objs[k].id = id
        THEN LET o == objs[CHOOSE k \in 1..Len(objs) : objs[k].id = id] IN
             [table[id] EXCEPT !.demand_level = o.demand_level,
                               !.seats_available = o.seats_available,
                               !.current_fare = o.current_fare,
                               !.sim_iter = o.sim_iter]
        ELSE table[id]]

WorkerCommit ==
    /\ wpc = "loop"
    /\ wi > Len(wflights)
    /\ db' = CommitFlights(db, wflights)
    /\ history' = history \o wnew
    /\ wflights' = <<>> /\ wnew' = <<>> /\ wi' = 0
    /\ wpc' = "sleep"
    /\ UNCHANGED <<fareVars, bookVars, now, cfgVars, stop_background, iter, searchVars, shpc>>

\* time.sleep(BACKGROUND_UPDATE_INTERVAL_SEC): the clock moves on
WorkerSleep ==
    /\ wpc = "sleep"
    /\ now' = now + 1
    /\ wpc' = "check"
    /\ UNCHANGED <<fareVars, bookVars, db, history, cfgVars, stop_background,
                   iter, wflights, wi, wnew, searchVars, shpc>>

\* ------------------------------------------------------------------------
\* search_flights (GET /search)
\* ------------------------------------------------------------------------
\* str.upper() on the sampled airport codes
Upper(code) ==
    CASE code = "del" -> "DEL"
      [] code = "bom" -> "BOM"
      [] OTHER -> code

\* Query parameters: "" is an absent origin / destination, <<>> an absent date,
\* <<d>> the date d (day number; a day is 240 tenths of an hour)
SearchRequests ==
    { [origin |-> "", destination |-> "", date |-> <<>>,
       sort_by |-> "price", order |-> "asc", limit |-> 50],
      [origin |-> "", destination |-> "bom", date |-> <<>>,
       sort_by |-> "price", order |-> "desc", limit |-> 1],
      [origin |-> "del", destination |-> "", date |-> <<>>,
       sort_by |-> "duration", order |-> "asc", limit |-> 50],
      [origin |-> "", destination |-> "BOM", date |-> <<0>>,
       sort_by |-> "duration", order |-> "desc", limit |-> 1] }

\* the WHERE clauses added to select(Flight)
Matches(f, p) ==
    /\ p.origin # "" => f.origin = Upper(p.origin)
    /\ p.destination # "" => f.destination = Upper(p.destination)
    /\ p.date # <<>> => /\ f.departure >= 240 * p.date[1]
                        /\ f.departure < 240 * p.date[1] + 240

RECURSIVE FilterRows(_, _)
FilterRows(rows, p) ==
    IF rows = <<>> THEN <<>>
    ELSE IF Matches(Head(rows), p) THEN <<Head(rows)>> \o FilterRows(Tail(rows), p)
    ELSE FilterRows(Tail(rows), p)

SortKey(f, sort_by) == IF sort_by = "price" THEN f.current_fare ELSE f.duration_mins

\* list.sort(key=..., reverse=...): stable in both directions
RECURSIVE InsertSorted(_, _, _, _)
InsertSorted(f, sorted, sort_by, reverse) ==
    IF sorted = <<>> THEN <<f>>
    ELSE IF (IF reverse THEN SortKey(f, sort_by) > SortKey(Head(sorted), sort_by)
                        ELSE SortKey(f, sort_by) < SortKey(Head(sorted), sort_by))
         THEN <<f>> \o sorted
         ELSE <<Head(sorted)>> \o InsertSorted(f, Tail(sorted), sort_by, reverse)

RECURSIVE SortRows(_, _, _)
SortRows(rows, sort_by, reverse) ==
    IF rows = <<>> THEN <<>>
    ELSE InsertSorted(rows[Len(rows)],
                      SortRows(SubSeq(rows, 1, Len(rows) - 1), sort_by, reverse),
                      sort_by, reverse)

\* adjusted[:limit]
Limit(rows, limit) == SubSeq(rows, 1, Min(limit, Len(rows)))

\* results = session.exec(stmt).all()
SearchSelect ==
    /\ spc = "idle"
    /\ nsearch < MaxSearch
    /\ \E p \in SearchRequests :
         /\ sparams' = p
         /\ sobjs' = FilterRows(AllRows(db), p)
    /\ snew' = <<>>
    /\ sresp' = <<>>
    /\ nsearch' = nsearch + 1
    /\ spc' = "loop"
    /\ UNCHANGED <<fareVars, bookVars, dbVars, stop_background, workerVars, shpc>>

\* "for f in results": every result gets a new fare and, when history is
\* enabled, a FareHistory row; the changes stay in the session
RecomputeFlight(f, volatility, clock) ==
    [f EXCEPT !.current_fare =
        compute_dynamic_fare(f.base_fare, f.seats_total, f.seats_available,
                             HoursToDeparture(f, clock), f.demand_level, volatility)]

SearchRecompute ==
    /\ spc = "loop"
    /\ \E vol \in [1..Len(sobjs) -> rng.vols] :
         LET adjusted == [k \in 1..Len(sobjs) |-> RecomputeFlight(sobjs[k], vol[k], now)] IN
         /\ sobjs' = adjusted
         /\ snew' = IF enable_fare_history
                    THEN [k \in 1..Len(sobjs) |-> HistoryRow(adjusted[k], now)]
                    ELSE <<>>
    /\ spc' = "commit"
    /\ UNCHANGED <<fareVars, bookVars, dbVars, stop_background, workerVars, nsearch, sparams, sresp, shpc>>

\* session.commit() of the search session: current_fare of every result and
\* the session's FareHistory rows, in one transaction
CommitFares(table, objs) ==
    [id \in DOMAIN table |->
        IF \E k \in 1..Len(objs) : objs[k].id = id
        THEN [table[id] EXCEPT !.current_fare =
                 objs[CHOOSE k \in 1..Len(objs) : objs[k].id = id].current_fare]
        ELSE table[id]]

\* the response: sort, cut at limit
SearchResponse(objs, p) ==
    LET sorted == SortRows(objs, p.sort_by, p.order = "desc")
        cut == Limit(sorted, p.limit)
    IN  [k \in 1..Len(cut) |-> cut[k].id]

\* SearchCommit that writes only the flights of the response
SearchCommitReturned ==
    /\ spc = "commit"
    /\ LET sorted == SortRows(sobjs, sparams.sort_by, sparams.order = "desc")
           cut == Limit(sorted, sparams.limit)
       IN  /\ db' = CommitFares(db, cut)
           /\ history' = history \o snew
           /\ sresp' = [k \in 1..Len(cut) |-> cut[k].id]
    /\ sobjs' = <<>> /\ snew' = <<>> /\ sparams' = <<>>
    /\ spc' = "idle"
    /\ UNCHANGED <<fareVars, bookVars, now, cfgVars, stop_background, workerVars, nsearch, shpc>>

SearchCommit ==
    /\ spc = "commit"
    /\ db' = CommitFares(db, sobjs)
    /\ history' = history \o snew
    /\ sresp' = SearchResponse(sobjs, sparams)
    /\ sobjs' = <<>> /\ snew' = <<>> /\ sparams' = <<>>
    /\ spc' = "idle"
    /\ UNCHANGED <<fareVars, bookVars, now, cfgVars, stop_background, workerVars, nsearch, shpc>>

\* ------------------------------------------------------------------------
\* shutdown_event
\* ------------------------------------------------------------------------
\* stop_background = True
ShutdownSet ==
    /\ shpc = "idle"
    /\ stop_background' = TRUE
    /\ shpc' = "join"
    /\ UNCHANGED <<fareVars, bookVars, dbVars, workerVars, searchVars>>

\* bg_thread.join(timeout=2) returns: the thread has ended or 2 s have passed
ShutdownJoin ==
    /\ shpc = "join"
    /\ shpc' = "done"
    /\ UNCHANGED <<fareVars, bookVars, dbVars, stop_background, workerVars, searchVars>>

\* ------------------------------------------------------------------------
\* Booking service (app.py): book_flight, cancel_booking
\* ------------------------------------------------------------------------
\* create_tables: the three sample flights (seats, price)
SampleFlights ==
    <<[total_seats |-> 100, available_seats |-> 100, price |-> 4500],
      [total_seats |-> 80, available_seats |-> 80, price |-> 5200],
      [total_seats |-> 60, available_seats |-> 60, price |-> 6100]>>

Threads == 1..NumThreads
Pnrs == 1..NumPnrs                       \* the values generate_pnr() can return
FlightIdInputs == {1, 3, 9}              \* flight_id of a request; 9 is no flight
SeatsInputs == {0 - 5, 1, 60, 105}       \* data.get('seats', 1): any integer

Idle == [pc |-> "idle"]

InitBookIdle ==
    /\ flight_table = SampleFlights
    /\ booking_table = <<>>
    /\ handler = [t \in Threads |-> Idle]
    /\ nreq = 0

\* book_flight up to the two checks: Flight.query.get(flight_id), then
\* "if not flight" (404) and "if flight.available_seats < seats" (400)
BookRead(t) ==
    /\ handler[t].pc = "idle"
    /\ nreq < MaxRequests
    /\ nreq' = nreq + 1
    /\ \E fid \in FlightIdInputs, seats \in SeatsInputs :
         handler' = [handler EXCEPT ![t] =
            IF fid \notin DOMAIN flight_table THEN Idle
            ELSE IF flight_table[fid].available_seats < seats THEN Idle
            ELSE [pc |-> "book", flight_id |-> fid, seats |-> seats,
                  available_seats |-> flight_table[fid].available_seats]]
    /\ UNCHANGED <<fareVars, simVars, flight_table, booking_table>>

\* the try block: flight.available_seats -= seats on the session's object,
\* the Booking row with a generated pnr, db.session.commit().  A pnr that is
\* already in the table violates its unique constraint: IntegrityError,
\* db.session.rollback(), 500.
BookCommit(t) ==
    /\ handler[t].pc = "book"
    /\ \E pnr \in Pnrs :
         IF \E k \in 1..Len(booking_table) : booking_table[k].pnr = pnr
         THEN UNCHANGED <<flight_table, booking_table>>
         ELSE LET h == handler[t] IN
              /\ flight_table' = [flight_table EXCEPT ![h.flight_id].available_seats =
                                      h.available_seats - h.seats]
              /\ booking_table' = Append(booking_table,
                    [pnr |-> pnr, flight_id |-> h.flight_id, seats_booked |-> h.seats,
                     total_amount |-> flight_table[h.flight_id].price * h.seats,
                     status |-> "CONFIRMED"])
    /\ handler' = [handler EXCEPT ![t] = Idle]
    /\ UNCHANGED <<fareVars, simVars, nreq>>

\* cancel_booking up to the two checks: Booking.query.filter_by(pnr=pnr).first(),
\* then "if not booking" (404) and "if booking.status == 'CANCELLED'" (200)
CancelRead(t) ==
    /\ handler[t].pc = "idle"
    /\ nreq < MaxRequests
    /\ nreq' = nreq + 1
    /\ \E pnr \in Pnrs :
         handler' = [handler EXCEPT ![t] =
            IF \A k \in 1..Len(booking_table) : booking_table[k].pnr # pnr THEN Idle
            ELSE LET k == CHOOSE k \in 1..Len(booking_table) : booking_table[k].pnr = pnr IN
                 IF booking_table[k].status = "CANCELLED" THEN Idle
                 ELSE [pc |-> "cancel", booking |-> k,
                       flight_id |-> booking_table[k].flight_id,
                       seats_booked |-> booking_table[k].seats_booked]]
    /\ UNCHANGED <<fareVars, simVars, flight_table, booking_table>>

\* booking.status = 'CANCELLED'; flight = Flight.query.get(booking.flight_id)
CancelReadFlight(t) ==
    /\ handler[t].pc = "cancel"
    /\ handler' = [handler EXCEPT ![t] =
          [pc |-> "cancel_commit", booking |-> handler[t].booking,
           flight_id |-> handler[t].flight_id,
           seats_booked |-> handler[t].seats_booked,
           available_seats |-> flight_table[handler[t].flight_id].available_seats]]
    /\ UNCHANGED <<fareVars, simVars, flight_table, booking_table, nreq>>

\* flight.available_seats += booking.seats_booked; db.session.commit()
CancelCommit(t) ==
    /\ handler[t].pc = "cancel_commit"
    /\ LET h == handler[t] IN
         /\ flight_table' = [flight_table EXCEPT ![h.flight_id].available_seats =
                                 h.available_seats + h.seats_booked]
         /\ booking_table' = [booking_table EXCEPT ![h.booking].status = "CANCELLED"]
    /\ handler' = [handler EXCEPT ![t] = Idle]
    /\ UNCHANGED <<fareVars, simVars, nreq>>

\* ------------------------------------------------------------------------
\* Specifications
\* ------------------------------------------------------------------------
\* the fare engine alone
InitFare ==
    /\ fareIn \in { in \in FareInputs : in.seats_available <= in.seats_total }
    /\ fareOut = <<>>
    /\ InitSimIdle
    /\ InitBookIdle

NextFare == FareCall /\ UNCHANGED <<simVars, bookVars>>

SpecFare == InitFare /\ [][NextFare]_vars

\* the flight search service while no shutdown is requested: the simulator
\* and search requests, racing
Init == InitFareIdle /\ InitSim /\ InitBookIdle

Next ==
    \/ WorkerEnter
    \/ WorkerSelect
    \/ WorkerFlight
    \/ WorkerCommit
    \/ WorkerSleep
    \/ SearchSelect
    \/ SearchRecompute
    \/ SearchCommit

Spec == Init /\ [][Next]_vars

\* the simulator alone, walking a table of one row (the rows of a table are
\* simulated independently of each other) with every draw of the code
InitWalk ==
    /\ InitFareIdle
    /\ InitBookIdle
    /\ db \in SeededTables(1)
    /\ history = <<>>
    /\ now = 0
    /\ enable_fare_history \in BOOLEAN
    /\ rng = WalkRng
    /\ stop_background = FALSE
    /\ wpc = "check" /\ iter = 0 /\ wflights = <<>> /\ wi = 0 /\ wnew = <<>>
    /\ spc = "idle" /\ nsearch = 0
    /\ sparams = <<>> /\ sobjs = <<>> /\ snew = <<>> /\ sresp = <<>>
    /\ shpc = "idle"

NextWalk ==
    \/ WorkerEnter
    \/ WorkerSelect
    \/ WorkerFlight
    \/ WorkerCommit
    \/ WorkerSleep

SpecWalk == InitWalk /\ [][NextWalk]_vars

\* the simulator with a malformed record injected, and the shutdown handler
NextShutdown ==
    \/ InjectMalformed
    \/ WorkerEnter
    \/ WorkerStop
    \/ WorkerSelect
    \/ WorkerFlight
    \/ WorkerFlightRaise
    \/ WorkerCommit
    \/ WorkerSleep
    \/ ShutdownSet
    \/ ShutdownJoin

SpecShutdown == Init /\ [][NextShutdown]_vars

\* one step of the thread running background_worker, whichever it is
WorkerStep ==
    \/ WorkerEnter
    \/ WorkerStop
    \/ WorkerSelect
    \/ WorkerFlight
    \/ WorkerFlightRaise
    \/ WorkerCommit
    \/ WorkerSleep

\* the same service under fair scheduling: the worker thread is not starved
\* (each of its steps ends: the session's calls return or raise, the sleep is
\* finite), and shutdown_event, once called, runs on (the join is bounded by
\* its timeout). When shutdown_event is called is left to the environment.
FairShutdown ==
    /\ WF_vars(WorkerStep)
    /\ WF_vars(ShutdownJoin)

SpecShutdownFair == Init /\ [][NextShutdown]_vars /\ FairShutdown

\* the booking service: requests handled by concurrent threads
InitBooking == InitFareIdle /\ InitSimIdle /\ InitBookIdle

NextBooking ==
    \E t \in Threads :
        \/ BookRead(t)
        \/ BookCommit(t)
        \/ CancelRead(t)
        \/ CancelReadFlight(t)
        \/ CancelCommit(t)

SpecBooking == InitBooking /\ [][NextBooking]_vars

\* ------------------------------------------------------------------------
\* Properties
\* ------------------------------------------------------------------------

\* C1 (SpecWalk): whatever demand deltas in -5..8 and seat changes in
\* {0,-1,-2,1} the simulator draws, over any number of iterations, every
\* flight keeps 0 <= seats_available <= seats_total and 0 <= demand_level <= 100,
\* in the table and in the worker's session.
SimulatorBounds ==
    /\ \A id \in DOMAIN db :
         /\ 0 <= db[id].seats_available /\ db[id].seats_available <= db[id].seats_total
         /\ 0 <= db[id].demand_level /\ db[id].demand_level <= 100
    /\ \A k \in 1..Len(wflights) :
         /\ 0 <= wflights[k].seats_available
         /\ wflights[k].seats_available <= wflights[k].seats_total
         /\ 0 <= wflights[k].demand_level /\ wflights[k].demand_level <= 100

\* two iterations are committed and both clamps have acted: demand 98 + 8 is
\* cut to 100, and seats 3 - 2 - 2 to 0
SimulatorBoundsWitness ==
    /\ iter = 2 /\ wpc = "sleep"
    /\ db[1].sim_iter = 2
    /\ db[1].demand_level = 100
    /\ db[1].seats_available = 0

\* C2 (SpecShutdown): when the computation raises on one flight during an
\* iteration, the other flights of that iteration are still updated: once the
\* worker sleeps after iteration iter, every well-formed flight carries the
\* values written by iteration iter.
FailingIterationUpdatesOthers ==
    wpc = "sleep" =>
        \A id \in DOMAIN db : ~db[id].malformed => db[id].sim_iter = iter

RECURSIVE ConfirmedSeats(_, _)
ConfirmedSeats(rows, fid) ==
    IF rows = <<>> THEN 0
    ELSE (IF Head(rows).flight_id = fid /\ Head(rows).status = "CONFIRMED"
          THEN Head(rows).seats_booked ELSE 0) + ConfirmedSeats(Tail(rows), fid)

\* C3 (SpecBooking): for every flight, the seats_booked of its CONFIRMED
\* bookings add up to at most the flight's total_seats, after any sequence
\* and interleaving of book and cancel requests with any seats value.
BookingCapacity ==
    \A fid \in DOMAIN flight_table :
        ConfirmedSeats(booking_table, fid) <= flight_table[fid].total_seats

\* the step of background_worker that commits an iteration
WorkerCommits == wpc = "loop" /\ wpc' = "sleep"

\* the rows of history' appended by the step
AppendedRows == (Len(history) + 1)..Len(history')

\* C4 (Spec): the commit of a simulator iteration over N flights appends
\* exactly N FareHistory rows, one per flight and carrying the current_fare the
\* iteration wrote for it, when ENABLE_FARE_HISTORY is true, and no row when it
\* is false; no other step of the worker touches the table.
HistoryRowsPerIteration ==
    [][ /\ WorkerCommits =>
             IF enable_fare_history
             THEN /\ Len(history') = Len(history) + Cardinality(DOMAIN db)
                  /\ SubSeq(history', 1, Len(history)) = history
                  /\ \A id \in DOMAIN db :
                       /\ Cardinality({k \in AppendedRows : history'[k].flight_id = id}) = 1
                       /\ \A k \in AppendedRows :
                            history'[k].flight_id = id =>
                                history'[k].fare = db'[id].current_fare
             ELSE history' = history
        /\ (workerVars' # workerVars /\ ~WorkerCommits) => history' = history
      ]_vars

\* the first iteration is committed with history enabled, before any search:
\* the table holds one row per flight
HistoryRowsWitness ==
    /\ enable_fare_history /\ iter = 1 /\ wpc = "sleep" /\ nsearch = 0
    /\ Len(history) = Cardinality(DOMAIN db)
    /\ Len(history) >= 2

\* C5 (SpecFare): for base_fare > 0, 0 <= seats_available <= seats_total,
\* hours >= 0.1, demand 0..100 and volatility in [-2%, 3%] the fare is at
\* least max(1.0, base_fare * 0.5)  (in cents: 100 and 25 per half unit).
FareFloorInvariant ==
    fareOut # <<>> =>
        /\ fareOut[1] >= 100
        /\ fareOut[1] >= 25 * fareIn.base_fare

\* a call in which the floor decides: base_fare 0.50 with no surcharge
FareFloorWitness ==
    /\ fareOut = <<100>>
    /\ fareIn.base_fare = 1
    /\ fareIn.demand_level = 0 /\ fareIn.hours = 480
    /\ fareIn.seats_total = 3 /\ fareIn.seats_available = 3

\* the documented breakpoints, in thousandths
DocumentedScarcity(seats_total, seats_available) ==
    LET t == IF seats_total <= 0 THEN 1 ELSE seats_total
        pct == 100 * seats_available      \* remaining_pct * 100 * t
    IN  CASE pct < 5 * t -> 1000
          [] pct >= 5 * t /\ pct < 15 * t -> 500
          [] pct >= 15 * t /\ pct < 33 * t -> 250
          [] pct >= 33 * t /\ pct < 50 * t -> 100
          [] OTHER -> 0

DocumentedUrgency(hours) ==
    CASE hours < 20 -> 750
      [] hours >= 20 /\ hours < 120 -> 350
      [] hours >= 120 /\ hours < 480 -> 100
      [] OTHER -> 0

\* max(floor, round(base_fare * (1 + scarcity + urgency + 0.8 * clamp(demand/100)), 2))
DocumentedFare(in) ==
    LET clamp == IF in.demand_level < 0 THEN 0
                 ELSE IF in.demand_level > 100 THEN 100 ELSE in.demand_level
        mult == 1000 + DocumentedScarcity(in.seats_total, in.seats_available)
                     + DocumentedUrgency(in.hours) + 8 * clamp
        floor == IF 25 * in.base_fare > 100 THEN 25 * in.base_fare ELSE 100
        rounded == RoundHalfEven(in.base_fare * mult, 20)
    IN  IF rounded > floor THEN rounded ELSE floor

\* C7 (SpecFare): with volatility 0 the fare is the documented breakpoint
\* arithmetic; base_fare=1000, seats_total=100, seats_available=2, hours=1,
\* demand=50 gives 3150.00.
BreakpointArithmetic ==
    (fareOut # <<>> /\ fareIn.volatility = 0) =>
        /\ fareOut[1] = DocumentedFare(fareIn)
        /\ (/\ fareIn.base_fare = 2000 /\ fareIn.seats_total = 100
            /\ fareIn.seats_available = 2 /\ fareIn.hours = 10
            /\ fareIn.demand_level = 50) => fareOut[1] = 315000

\* the documented example has been computed
BreakpointWitness ==
    /\ fareOut = <<315000>>
    /\ fareIn = [base_fare |-> 2000, seats_total |-> 100, seats_available |-> 2,
                 hours |-> 10, demand_level |-> 50, volatility |-> 0]

\* C8 (SpecFare): with the volatility and the other inputs fixed, the fare
\* does not go down when seats_available goes down, when hours goes down, or
\* when demand_level goes up.
FareMonotone ==
    fareOut # <<>> =>
        /\ \A a \in 0..fareIn.seats_available :
             FareOf([fareIn EXCEPT !.seats_available = a]) >= fareOut[1]
        /\ \A h \in HoursSamples :
             h < fareIn.hours => FareOf([fareIn EXCEPT !.hours = h]) >= fareOut[1]
        /\ \A d \in DemandSamples \cup {fareIn.demand_level + 1} :
             (d > fareIn.demand_level /\ d <= 100) =>
                 FareOf([fareIn EXCEPT !.demand_level = d]) >= fareOut[1]

\* a call whose fare rises strictly with one seat less, with an earlier
\* departure and with more demand
FareMonotoneWitness ==
    /\ fareOut # <<>>
    /\ fareIn.seats_available > 0
    /\ FareOf([fareIn EXCEPT !.seats_available = fareIn.seats_available - 1]) > fareOut[1]
    /\ fareIn.hours = 20
    /\ FareOf([fareIn EXCEPT !.hours = 19]) > fareOut[1]
    /\ fareIn.demand_level = 50
    /\ FareOf([fareIn EXCEPT !.demand_level = 100]) > fareOut[1]

\* the ids of the flights that match the filters p
MatchingIds(p) == { id \in DOMAIN db : Matches(db[id], p) }

\* C9 (Spec): a search selects every flight that matches its filters, gives
\* each a fare from the fare engine called with the flight's columns and
\* max(0.1, hours), and its commit overwrites current_fare of exactly the
\* matching flights (whatever the limit), leaves every other column and every
\* other flight alone, and appends one FareHistory row per matching flight
\* when history is enabled and none when it is disabled.
SearchRecomputesMatching ==
    [][ /\ (spc = "idle" /\ spc' = "loop") =>
             /\ Len(sobjs') = Cardinality(MatchingIds(sparams'))
             /\ { sobjs'[k].id : k \in 1..Len(sobjs') } = MatchingIds(sparams')
        /\ (spc = "loop" /\ spc' = "commit") =>
             /\ Len(sobjs') = Len(sobjs)
             /\ \A k \in 1..Len(sobjs) :
                  \E v \in Volatility :
                     sobjs'[k] = [sobjs[k] EXCEPT !.current_fare =
                        compute_dynamic_fare(sobjs[k].base_fare, sobjs[k].seats_total,
                            sobjs[k].seats_available,
                            IF sobjs[k].departure - now < 1 THEN 1
                            ELSE sobjs[k].departure - now,
                            sobjs[k].demand_level, v)]
        /\ (spc = "commit" /\ spc' = "idle") =>
             /\ \A id \in MatchingIds(sparams) :
                  \E k \in 1..Len(sobjs) :
                     /\ sobjs[k].id = id
                     /\ db'[id] = [db[id] EXCEPT !.current_fare = sobjs[k].current_fare]
             /\ \A id \in DOMAIN db \ MatchingIds(sparams) : db'[id] = db[id]
             /\ IF enable_fare_history
                THEN /\ Len(history') = Len(history) + Cardinality(MatchingIds(sparams))
                     /\ SubSeq(history', 1, Len(history)) = history
                     /\ \A id \in MatchingIds(sparams) :
                          Cardinality({k \in AppendedRows : history'[k].flight_id = id}) = 1
                     /\ \A k \in AppendedRows :
                          history'[k].fare = db'[history'[k].flight_id].current_fare
                ELSE history' = history
      ]_vars

\* a search with limit 1 that matched two flights has committed, before any
\* simulator iteration: one flight is returned, both have a history row
SearchRecomputesWitness ==
    /\ enable_fare_history /\ iter = 0
    /\ nsearch = 1 /\ spc = "idle"
    /\ Len(sresp) = 1
    /\ Len(history) = 2
    /\ history[1].flight_id # history[2].flight_id

\* C10 (Spec): an iteration's updates become visible together: the table never
\* holds, and a search never reads, flights of which only some carry the
\* values of an iteration.
IterationAtomic ==
    /\ \A i, j \in DOMAIN db : db[i].sim_iter = db[j].sim_iter
    /\ \A i, j \in 1..Len(sobjs) : sobjs[i].sim_iter = sobjs[j].sim_iter

\* a search holds its results while the worker is in the middle of the first
\* iteration: flight 1 is updated in the worker's session, flight 2 is not,
\* and the search has read both as they were before the iteration
IterationAtomicWitness ==
    /\ wpc = "loop" /\ iter = 1 /\ wi = 2
    /\ wflights[1].sim_iter = 1
    /\ spc = "loop" /\ Len(sobjs) = 2
    /\ sobjs[1].sim_iter = 0 /\ sobjs[2].sim_iter = 0

\* C6 (SpecShutdown): the worker becomes "stopped" only from the loop test and
\* only after shutdown_event has set the flag; the loop body, whether it
\* commits or raises, ends in the sleep; after the sleep the worker is back at
\* the loop test, and from there, while the flag is clear, it can only start
\* another iteration.
StopsOnlyOnRequest ==
    [][ /\ (wpc # "stopped" /\ wpc' = "stopped") =>
             (wpc = "check" /\ stop_background /\ shpc # "idle")
        /\ (wpc = "loop" /\ wpc' # "loop") => wpc' = "sleep"
        /\ (wpc = "sleep" /\ wpc' # "sleep") => wpc' = "check"
        /\ (wpc = "check" /\ ~stop_background /\ wpc' # "check") => wpc' = "select"
        /\ wpc = "stopped" => wpc' = "stopped"
      ]_vars

\* the first iteration raised (it wrote nothing) and, the flag being clear,
\* the worker has started a second iteration
StopsOnlyOnRequestWitness ==
    /\ \E id \in DOMAIN db : db[id].malformed
    /\ \A id \in DOMAIN db : db[id].sim_iter = 0
    /\ iter = 2 /\ wpc = "select"
    /\ ~stop_background

\* C11 (SpecShutdownFair): cooperative shutdown. Once shutdown_event has set
\* the stop flag, the flag stays set and the worker starts no iteration: the
\* only iteration that can still run is one that passed the loop test before
\* the flag was set. Under fair scheduling the worker then reaches "stopped"
\* and stays there. shutdown_event, once it has set the flag, returns from its
\* bounded join, and its return does not depend on where the worker is.
CooperativeShutdown ==
    /\ [][ /\ stop_background => stop_background'
           /\ stop_background => iter' = iter
           /\ stop_background => ~(wpc = "check" /\ wpc' = "select")
           /\ (shpc = "join" /\ shpc' = "done") => wpc' = wpc
         ]_vars
    /\ (stop_background ~> [](wpc = "stopped"))
    /\ (shpc = "join" ~> shpc = "done")

\* shutdown_event has returned while the worker is still inside the
\* iteration it had started before the flag was set
CooperativeShutdownWitness ==
    /\ shpc = "done" /\ stop_background
    /\ wpc = "loop" /\ iter = 1 /\ wi = 2

====
